---- MODULE Spec2Model ----
(***************************************************************************)
(* zest::pkzip -- the read-only parser of a ZIP container's directory.     *)
(*                                                                         *)
(* ZipArchive::new locates the End-Of-Central-Directory record in the      *)
(* trailing window of a seekable byte source, seeks to the central         *)
(* directory and decodes num_entries Central Directory File records into   *)
(* an entry list and a name -> index table.                                *)
(*                                                                         *)
(* The byte source is an in-memory reader (std::io::Cursor): a seek never  *)
(* fails, and read_exact fails with an IO error exactly when fewer bytes   *)
(* remain than were asked for.  A Rust panic (a slice index out of range)  *)
(* is the outcome "Panic".                                                 *)
(***************************************************************************)
EXTENDS Integers, Sequences, FiniteSets, TLC

VARIABLES src, pc, pos, fsize, buf, start, eocd, hdr, files, names, ops, result

vars == <<src, pc, pos, fsize, buf, start, eocd, hdr, files, names, ops, result>>

----------------------------------------------------------------------------
(* Sizes and signatures *)

BUF_SIZE == 65536

\* A u32 is kept as its two 16-bit halves, [hi, lo]: its value is
\* hi * 65536 + lo.  0x06054b50 and 0x02014b50:
END_OF_CENTRAL_DIRECTORY_SIGNATURE == [hi |-> 1541, lo |-> 19280]
CENTRAL_DIRECTORY_SIGNATURE == [hi |-> 513, lo |-> 19280]

\* a u32 widened to a stream position (`as u64`, `as usize`)
U32Val(u) == u.hi * 65536 + u.lo

\* size_of::<ZipEndOfCentralDirectoryHeader>(): a packed struct of
\* u32, u16, u16, u16, u16, u32, u32, u16
EocdHeaderSize == 4 + 2 + 2 + 2 + 2 + 4 + 4 + 2

\* size_of::<ZipCentralDirectoryFileHeader>(): a packed struct of
\* u32, 6 x u16, 3 x u32, 5 x u16, 2 x u32 (CompressionMethod is repr(u16))
CdfHeaderSize == 4 + (6 * 2) + (3 * 4) + (5 * 2) + (2 * 4)

min(a, b) == IF a < b THEN a ELSE b

----------------------------------------------------------------------------
(* The byte source: head ++ (gap zero bytes) ++ tail, positions from 0 *)

SrcLen(s) == Len(s.head) + s.gap + Len(s.tail)

ByteAt(s, p) ==
  IF p < Len(s.head) THEN s.head[p + 1]
  ELSE IF p < Len(s.head) + s.gap THEN 0
  ELSE s.tail[p - Len(s.head) - s.gap + 1]

\* the bytes of s at positions from .. to-1, as a Vec<u8>
SrcBytes(s, from, to) == [k \in 1..(to - from) |-> ByteAt(s, from + k - 1)]

\* buf is the copy of the source's bytes base .. base+len-1 (the source is
\* never written, so the copy is kept as a view)
BufAt(b, i) == ByteAt(src, b.base + i)

\* &buf[from..to]
BufSlice(b, from, to) == SrcBytes(src, b.base + from, b.base + to)

----------------------------------------------------------------------------
(* Byte primitives: read from the front of a cursor and advance it *)

read_le_u16(input) ==
  [val  |-> input[1] + 256 * input[2],
   rest |-> SubSeq(input, 3, Len(input))]

read_le_u32(input) ==
  [val  |-> [hi |-> input[3] + 256 * input[4], lo |-> input[1] + 256 * input[2]],
   rest |-> SubSeq(input, 5, Len(input))]

\* impl From<u16> for CompressionMethod
CompressionMethodFrom(n) ==
  CASE n = 0 -> "Uncompressed"
    [] n = 8 -> "Deflate"
    [] OTHER -> "Unsupported"

----------------------------------------------------------------------------
(* String::from_utf8: whether a byte sequence is well-formed UTF-8 *)

IsCont(b) == b >= 128 /\ b <= 191

RECURSIVE Utf8Valid(_)
Utf8Valid(s) ==
  IF s = <<>> THEN TRUE
  ELSE LET b == s[1]
           n == Len(s)
       IN  IF b < 128 THEN Utf8Valid(Tail(s))
           ELSE IF b >= 194 /\ b <= 223
             THEN n >= 2 /\ IsCont(s[2]) /\ Utf8Valid(SubSeq(s, 3, n))
           ELSE IF b >= 224 /\ b <= 239
             THEN /\ n >= 3
                  /\ CASE b = 224 -> s[2] >= 160 /\ s[2] <= 191
                       [] b = 237 -> s[2] >= 128 /\ s[2] <= 159
                       [] OTHER   -> IsCont(s[2])
                  /\ IsCont(s[3])
                  /\ Utf8Valid(SubSeq(s, 4, n))
           ELSE IF b >= 240 /\ b <= 244
             THEN /\ n >= 4
                  /\ CASE b = 240 -> s[2] >= 144 /\ s[2] <= 191
                       [] b = 244 -> s[2] >= 128 /\ s[2] <= 143
                       [] OTHER   -> IsCont(s[2])
                  /\ IsCont(s[3])
                  /\ IsCont(s[4])
                  /\ Utf8Valid(SubSeq(s, 5, n))
           ELSE FALSE

----------------------------------------------------------------------------
(* Results *)

EmptyMap == [k \in {} |-> 0]

NoEocdHeader ==
  [signature |-> [hi |-> 0, lo |-> 0], disk_number |-> 0, start_disk |-> 0,
   num_disk_entries |-> 0, num_entries |-> 0,
   central_dir_len |-> [hi |-> 0, lo |-> 0],
   cendral_dir_offset |-> [hi |-> 0, lo |-> 0], comment_len |-> 0]

NoEocd == [header |-> NoEocdHeader, comment |-> <<>>]

NoArchive == [eocd |-> NoEocd, files |-> <<>>, names |-> EmptyMap]

NoResult == [tag |-> "None", kind |-> "", archive |-> NoArchive]

\* the text-decoding failure folded into the catch-all kind
FromUtf8AsOther == "Other"

\* impl From<std::string::FromUtf8Error> for Error
FromUtf8ErrorKind == "FromUtf8Error"

\* impl From<std::io::Error> for Error
IOErrorKind == "IO"

Err(k) == [tag |-> "Err", kind |-> k, archive |-> NoArchive]

Ok(a) == [tag |-> "Ok", kind |-> "", archive |-> a]

\* a slice index out of range: the thread panics and new returns nothing
Panic == [tag |-> "Panic", kind |-> "", archive |-> NoArchive]

----------------------------------------------------------------------------
(* Reader operations, as entries of the log of calls issued on the source *)

SeekOp(to) == [op |-> "seek", at |-> to, n |-> 0]

ReadOp(at, n) == [op |-> "read", at |-> at, n |-> n]

\* read_exact of n bytes at position p succeeds iff n bytes remain
CanRead(p, n) == n = 0 \/ p + n <= SrcLen(src)

----------------------------------------------------------------------------
(* ZipEndOfCentralDirectory::find *)

\* the size check made against the signature's four bytes only
TooSmallForSignature(fs) == fs < 4

\* the size check on the stream length
TooSmall(fs) == fs < EocdHeaderSize

\* the comparison made on windows at multiples of 4 only (chunks, not windows)
IsEocdWindowAligned(b, off) ==
  /\ off % 4 = 0
  /\ <<BufAt(b, off), BufAt(b, off + 1), BufAt(b, off + 2), BufAt(b, off + 3)>>
       = <<80, 75, 5, 6>>

\* whether the 4-byte window of buf b that starts at offset off is the
\* EOCD signature
IsEocdWindow(b, off) ==
  read_le_u32(<<BufAt(b, off), BufAt(b, off + 1),
                BufAt(b, off + 2), BufAt(b, off + 3)>>).val
    = END_OF_CENTRAL_DIRECTORY_SIGNATURE

\* the scan without rev(): the match nearest the front of the buffer wins
FrontPosition(b) ==
  LET last == b.len - 4
      hits == {i \in 0..last : IsEocdWindow(b, last - i)}
  IN  IF hits = {} THEN -1
      ELSE CHOOSE i \in hits : \A j \in hits : i >= j

\* buf.windows(4).rev().position(..): windows(4) yields the windows that
\* start at 0 .. len-4, rev() numbers them from the last one, and position
\* gives the least such number whose window matches (-1: None)
RevPosition(b) ==
  LET last == b.len - 4
      hits == {i \in 0..last : IsEocdWindow(b, last - i)}
  IN  IF hits = {} THEN -1
      ELSE CHOOSE i \in hits : \A j \in hits : i <= j

\* the eight header fields, read in order from the 22-byte cursor
DecodeEocdHeader(bytes) ==
  LET r1 == read_le_u32(bytes)
      r2 == read_le_u16(r1.rest)
      r3 == read_le_u16(r2.rest)
      r4 == read_le_u16(r3.rest)
      r5 == read_le_u16(r4.rest)
      r6 == read_le_u32(r5.rest)
      r7 == read_le_u32(r6.rest)
      r8 == read_le_u16(r7.rest)
  IN  [signature |-> r1.val, disk_number |-> r2.val, start_disk |-> r3.val,
       num_disk_entries |-> r4.val, num_entries |-> r5.val,
       central_dir_len |-> r6.val, cendral_dir_offset |-> r7.val,
       comment_len |-> r8.val]

\* the record at offset st of buf b: a slice past the end of buf panics
DecodeEocd(b, st) ==
  IF st + EocdHeaderSize > b.len THEN Panic
  ELSE LET header == DecodeEocdHeader(BufSlice(b, st, st + EocdHeaderSize))
           cstart == st + EocdHeaderSize
       IN  IF cstart + header.comment_len > b.len THEN Panic
           ELSE LET comment == BufSlice(b, cstart, cstart + header.comment_len)
                IN  IF ~Utf8Valid(comment) THEN Err(FromUtf8ErrorKind)
                    ELSE Ok([eocd  |-> [header |-> header, comment |-> comment],
                             files |-> <<>>, names |-> EmptyMap])

FindSeekEnd ==
  /\ pc = "new"
  /\ fsize' = SrcLen(src)
  /\ pos' = SrcLen(src)
  /\ ops' = Append(ops, SeekOp(SrcLen(src)))
  /\ IF TooSmall(SrcLen(src))
       THEN pc' = "done" /\ result' = Err("Other")
       ELSE pc' = "find_read" /\ result' = result
  /\ UNCHANGED <<src, buf, start, eocd, hdr, files, names>>

FindReadWindow ==
  /\ pc = "find_read"
  /\ LET nbytes == min(fsize, BUF_SIZE)
     IN  /\ ops' = ops \o <<SeekOp(fsize - nbytes), ReadOp(fsize - nbytes, nbytes)>>
         /\ IF CanRead(fsize - nbytes, nbytes)
              THEN /\ buf' = [base |-> fsize - nbytes, len |-> nbytes]
                   /\ pos' = fsize
                   /\ pc' = "find_scan"
                   /\ result' = result
              ELSE /\ buf' = buf
                   /\ pos' = pos
                   /\ pc' = "done"
                   /\ result' = Err(IOErrorKind)
  /\ UNCHANGED <<src, fsize, start, eocd, hdr, files, names>>

FindScan ==
  /\ pc = "find_scan"
  /\ LET i == RevPosition(buf)
     IN  IF i = -1
           THEN pc' = "done" /\ result' = Err("Other") /\ start' = start
           ELSE /\ start' = buf.len - (i + 4)
                /\ pc' = "find_decode"
                /\ result' = result
  /\ UNCHANGED <<src, pos, fsize, buf, eocd, hdr, files, names, ops>>

FindDecode ==
  /\ pc = "find_decode"
  /\ LET r == DecodeEocd(buf, start)
     IN  IF r.tag = "Ok"
           THEN eocd' = r.archive.eocd /\ pc' = "seek_cd" /\ result' = result
           ELSE eocd' = eocd /\ pc' = "done" /\ result' = r
  /\ UNCHANGED <<src, pos, fsize, buf, start, hdr, files, names, ops>>

----------------------------------------------------------------------------
(* ZipCentralDirectoryFile::find *)

NoCdfHeader ==
  [signature |-> [hi |-> 0, lo |-> 0], made_by_ver |-> 0, min_extract_ver |-> 0,
   general_purpose_flag |-> 0, compression_method |-> "Uncompressed",
   last_mod_time |-> 0, last_mod_date |-> 0, crc32 |-> [hi |-> 0, lo |-> 0],
   compressed_len |-> [hi |-> 0, lo |-> 0],
   uncompressed_len |-> [hi |-> 0, lo |-> 0],
   file_name_len |-> 0, extra_field_len |-> 0, comment_len |-> 0,
   start_disk |-> 0, internal_attrib |-> 0,
   external_attrib |-> [hi |-> 0, lo |-> 0],
   relative_offset_of_local_header |-> [hi |-> 0, lo |-> 0]]

\* the seventeen header fields, read in order from the 46-byte cursor
DecodeCdfHeader(bytes) ==
  LET r1  == read_le_u32(bytes)
      r2  == read_le_u16(r1.rest)
      r3  == read_le_u16(r2.rest)
      r4  == read_le_u16(r3.rest)
      r5  == read_le_u16(r4.rest)
      r6  == read_le_u16(r5.rest)
      r7  == read_le_u16(r6.rest)
      r8  == read_le_u32(r7.rest)
      r9  == read_le_u32(r8.rest)
      r10 == read_le_u32(r9.rest)
      r11 == read_le_u16(r10.rest)
      r12 == read_le_u16(r11.rest)
      r13 == read_le_u16(r12.rest)
      r14 == read_le_u16(r13.rest)
      r15 == read_le_u16(r14.rest)
      r16 == read_le_u32(r15.rest)
      r17 == read_le_u32(r16.rest)
  IN  [signature |-> r1.val, made_by_ver |-> r2.val, min_extract_ver |-> r3.val,
       general_purpose_flag |-> r4.val,
       compression_method |-> CompressionMethodFrom(r5.val),
       last_mod_time |-> r6.val, last_mod_date |-> r7.val, crc32 |-> r8.val,
       compressed_len |-> r9.val, uncompressed_len |-> r10.val,
       file_name_len |-> r11.val, extra_field_len |-> r12.val,
       comment_len |-> r13.val, start_disk |-> r14.val,
       internal_attrib |-> r15.val, external_attrib |-> r16.val,
       relative_offset_of_local_header |-> r17.val]

\* the signature test made on the low 16 bits only
BadSignatureLowHalf(sig) == sig.lo # CENTRAL_DIRECTORY_SIGNATURE.lo

\* the signature test on the header just read
BadSignature(sig) == sig # CENTRAL_DIRECTORY_SIGNATURE

\* the block read one byte too long
BlockLenPlusOne(h) == h.file_name_len + h.extra_field_len + h.comment_len + 1

\* the length of the variable block that follows the header
BlockLen(h) == h.file_name_len + h.extra_field_len + h.comment_len

\* the block cut into filename, extra and comment, in this order; a text
\* field of length 0 is String::new(), without a decode
DecodeCdfBlock(h, block) ==
  LET nameEnd  == h.file_name_len
      extraEnd == nameEnd + h.extra_field_len
      cmtEnd   == extraEnd + h.comment_len
      nameB    == SubSeq(block, 1, nameEnd)
      extraB   == SubSeq(block, nameEnd + 1, extraEnd)
      cmtB     == SubSeq(block, extraEnd + 1, cmtEnd)
  IN  IF h.file_name_len # 0 /\ ~Utf8Valid(nameB)
        THEN [tag |-> "Err", kind |-> FromUtf8ErrorKind]
      ELSE IF h.comment_len # 0 /\ ~Utf8Valid(cmtB)
        THEN [tag |-> "Err", kind |-> FromUtf8ErrorKind]
      ELSE [tag |-> "Ok", kind |-> "",
            cdf |-> [header   |-> h,
                     filename |-> IF h.file_name_len = 0 THEN <<>> ELSE nameB,
                     extra    |-> IF h.extra_field_len = 0 THEN <<>> ELSE extraB,
                     comment  |-> IF h.comment_len = 0 THEN <<>> ELSE cmtB]]

----------------------------------------------------------------------------
(* ZipArchive::new *)

\* where the central directory is sought
SeekTarget(e) == U32Val(e.header.cendral_dir_offset)

\* the loop run over the per-disk entry count
EntryCountPerDisk(e) == e.header.num_disk_entries

\* how many records the loop decodes
EntryCount(e) == e.header.num_entries

\* the insert made after the push, with the list's new length
NamesInsertAfterPush(m, k, v) ==
  [x \in (DOMAIN m) \cup {k} |-> IF x = k THEN v + 1 ELSE m[x]]

\* the insert that keeps the value of a key already present (or_insert)
NamesInsertKeepFirst(m, k, v) ==
  [x \in (DOMAIN m) \cup {k} |-> IF x \in DOMAIN m THEN m[x] ELSE v]

\* HashMap::insert: a key already present gets the new value
NamesInsert(m, k, v) ==
  [x \in (DOMAIN m) \cup {k} |-> IF x = k THEN v ELSE m[x]]

NewSeek ==
  /\ pc = "seek_cd"
  /\ pos' = SeekTarget(eocd)
  /\ ops' = Append(ops, SeekOp(SeekTarget(eocd)))
  /\ files' = <<>>
  /\ names' = EmptyMap
  /\ pc' = "loop"
  /\ UNCHANGED <<src, fsize, buf, start, eocd, hdr, result>>

CdfReadHeader ==
  /\ pc = "loop"
  /\ Len(files) < EntryCount(eocd)
  /\ ops' = Append(ops, ReadOp(pos, CdfHeaderSize))
  /\ IF ~CanRead(pos, CdfHeaderSize)
       THEN /\ pc' = "done"
            /\ result' = Err(IOErrorKind)
            /\ UNCHANGED <<pos, hdr>>
       ELSE LET h == DecodeCdfHeader(SrcBytes(src, pos, pos + CdfHeaderSize))
            IN  /\ pos' = pos + CdfHeaderSize
                /\ IF BadSignature(h.signature)
                     THEN pc' = "done" /\ result' = Err("Other") /\ hdr' = hdr
                     ELSE pc' = "cdf_block" /\ result' = result /\ hdr' = h
  /\ UNCHANGED <<src, fsize, buf, start, eocd, files, names>>

CdfReadBlock ==
  /\ pc = "cdf_block"
  /\ LET n == BlockLen(hdr)
     IN  /\ ops' = Append(ops, ReadOp(pos, n))
         /\ IF ~CanRead(pos, n)
              THEN /\ pc' = "done"
                   /\ result' = Err(IOErrorKind)
                   /\ UNCHANGED <<pos, files, names>>
              ELSE LET r == DecodeCdfBlock(hdr, SrcBytes(src, pos, pos + n))
                   IN  /\ pos' = pos + n
                       /\ IF r.tag = "Err"
                            THEN /\ pc' = "done"
                                 /\ result' = Err(r.kind)
                                 /\ UNCHANGED <<files, names>>
                            ELSE /\ names' = NamesInsert(names, r.cdf.filename, Len(files))
                                 /\ files' = Append(files, r.cdf)
                                 /\ pc' = "loop"
                                 /\ result' = result
  /\ UNCHANGED <<src, fsize, buf, start, eocd, hdr>>

NewReturn ==
  /\ pc = "loop"
  /\ Len(files) >= EntryCount(eocd)
  /\ result' = Ok([eocd |-> eocd, files |-> files, names |-> names])
  /\ pc' = "done"
  /\ UNCHANGED <<src, pos, fsize, buf, start, eocd, hdr, files, names, ops>>

----------------------------------------------------------------------------
(* The byte sources new is run on *)

\* the longest directory written before a well-formed EOCD record, and
\* before each of the other EOCD records
MaxEntries == 3

MaxVariantEntries == 2

LE16(n) == <<n % 256, n \div 256>>

LE32(n) == LE16(n % 65536) \o LE16(n \div 65536)

\* one Central Directory File record, as the bytes a ZIP writer emits
CdfBytes(e) ==
  <<80, 75, 1, IF e.sigok THEN 2 ELSE 3>>
    \o LE16(798) \o LE16(20) \o LE16(2048) \o LE16(e.method)
    \o LE16(24000) \o LE16(21000) \o <<120, 86, 52, 18>>
    \o LE32(5) \o LE32(7)
    \o LE16(Len(e.name)) \o LE16(Len(e.extra)) \o LE16(Len(e.comment))
    \o LE16(0) \o LE16(1) \o <<0, 0, 164, 129>> \o LE32(0)
    \o e.name \o e.extra \o e.comment

\* "a"; "a" again with an extra field that is no text and a two-byte
\* character in the comment; an empty name; a bad signature; a name that
\* is no UTF-8; a comment that ends inside a character
EntryKinds ==
  { [sigok |-> TRUE,  method |-> 0,  name |-> <<97>>,  extra |-> <<>>,       comment |-> <<>>],
    [sigok |-> TRUE,  method |-> 8,  name |-> <<97>>,  extra |-> <<255, 1>>, comment |-> <<195, 169>>],
    [sigok |-> TRUE,  method |-> 99, name |-> <<>>,    extra |-> <<>>,       comment |-> <<104>>],
    [sigok |-> FALSE, method |-> 0,  name |-> <<98>>,  extra |-> <<>>,       comment |-> <<>>],
    [sigok |-> TRUE,  method |-> 8,  name |-> <<255>>, extra |-> <<>>,       comment |-> <<>>],
    [sigok |-> TRUE,  method |-> 0,  name |-> <<99>>,  extra |-> <<7>>,      comment |-> <<195>>] }

EntrySeqs(n) == UNION { [1..k -> EntryKinds] : k \in 0..n }

RECURSIVE Flatten(_)
Flatten(ss) == IF ss = <<>> THEN <<>> ELSE Head(ss) \o Flatten(Tail(ss))

EocdSig == <<80, 75, 5, 6>>

\* how the End-Of-Central-Directory record departs from the directory
\* written before it: the declared entry count and offset, the comment and
\* its declared length, and bytes after the record
EocdVariant(dnum, doff, comment, dclen, trail) ==
  [dnum |-> dnum, doff |-> doff, comment |-> comment, dclen |-> dclen, trail |-> trail]

EocdVariants ==
  { EocdVariant(0, 0, <<>>, 0, <<>>),
    EocdVariant(0, 0, <<104, 105>>, 0, <<>>),
    EocdVariant(0, 0, <<255>>, 0, <<>>),
    EocdVariant(0, 0, <<>>, 1, <<>>),
    EocdVariant(1, 0, <<>>, 0, <<>>),
    EocdVariant(-1, 0, <<>>, 0, <<>>),
    EocdVariant(0, 1, <<>>, 0, <<>>),
    EocdVariant(0, 0, EocdSig \o [k \in 1..18 |-> 0], 0, <<>>),
    EocdVariant(0, 0, EocdSig, 0, <<>>),
    EocdVariant(0, 0, <<>>, 0, <<0>>) }

\* an archive: g zero bytes, the records of es, the EOCD record
Build(g, es, v) ==
  LET cd == Flatten([i \in 1..Len(es) |-> CdfBytes(es[i])])
      n  == Len(es)
      declared == IF n + v.dnum < 0 THEN 0 ELSE n + v.dnum
  IN  [head |-> <<>>, gap |-> g,
       tail |-> cd \o EocdSig \o LE16(0) \o LE16(0) \o LE16(n) \o LE16(declared)
                  \o LE32(Len(cd)) \o LE32(g + v.doff)
                  \o LE16(Len(v.comment) + v.dclen) \o v.comment \o v.trail]

\* archives that start at position 1 of the source, and a few at position 0
BuiltSources ==
  { Build(1, es, EocdVariant(0, 0, <<>>, 0, <<>>)) : es \in EntrySeqs(MaxEntries) }
    \cup
  { Build(1, es, v) : es \in EntrySeqs(MaxVariantEntries), v \in EocdVariants }
    \cup
  { Build(0, es, v) : es \in EntrySeqs(1), v \in EocdVariants }

\* the 22-byte record with num_entries = 1, central_dir_len = 0x2A,
\* central_dir_offset = 0x64 and no comment
ScenarioEocd ==
  <<80, 75, 5, 6, 0, 0, 0, 0, 1, 0, 1, 0, 42, 0, 0, 0, 100, 0, 0, 0, 0, 0>>

EmptyEocd == EocdSig \o [k \in 1..18 |-> 0]

Raw(head, gap, tail) == [head |-> head, gap |-> gap, tail |-> tail]

\* streams that are short, hold no signature, hold one too near the end,
\* or are longer than the trailing window
RawSources ==
  { Raw(<<>>, 0, <<>>),
    Raw(SubSeq(ScenarioEocd, 1, 21), 0, <<>>),
    Raw(<<>>, 21, <<>>),
    Raw(ScenarioEocd, 0, <<>>),
    Raw(<<>>, 22, <<>>),
    Raw(<<>>, 20, EocdSig),
    Raw(<<>>, 3, EocdSig \o EmptyEocd),
    Raw(EmptyEocd, BUF_SIZE, <<>>),
    Raw(EmptyEocd, BUF_SIZE - 22, <<>>),
    Raw(EmptyEocd, BUF_SIZE - 21, <<>>),
    Build(BUF_SIZE, <<CHOOSE e \in EntryKinds : e.method = 99>>,
          EocdVariant(0, 0, <<>>, 0, <<>>)) }

Sources == BuiltSources \cup RawSources

----------------------------------------------------------------------------

Init ==
  /\ src \in Sources
  /\ pc = "new"
  /\ pos = 0
  /\ fsize = 0
  /\ buf = [base |-> 0, len |-> 0]
  /\ start = 0
  /\ eocd = NoEocd
  /\ hdr = NoCdfHeader
  /\ files = <<>>
  /\ names = EmptyMap
  /\ ops = <<>>
  /\ result = NoResult

Next ==
  \/ FindSeekEnd
  \/ FindReadWindow
  \/ FindScan
  \/ FindDecode
  \/ NewSeek
  \/ CdfReadHeader
  \/ CdfReadBlock
  \/ NewReturn

Spec == Init /\ [][Next]_vars

----------------------------------------------------------------------------
(* What the source's bytes say, read at fixed offsets *)

U16At(p) == ByteAt(src, p) + 256 * ByteAt(src, p + 1)

U32At(p) == [hi |-> U16At(p + 2), lo |-> U16At(p)]

\* the byte sequence 50 4B 05 06 at position p of the source
EocdSigAt(p) ==
  /\ ByteAt(src, p) = 80
  /\ ByteAt(src, p + 1) = 75
  /\ ByteAt(src, p + 2) = 5
  /\ ByteAt(src, p + 3) = 6

\* the byte sequence 50 4B 01 02 at position p of the source
CdfSigAt(p) ==
  /\ ByteAt(src, p) = 80
  /\ ByteAt(src, p + 1) = 75
  /\ ByteAt(src, p + 2) = 1
  /\ ByteAt(src, p + 3) = 2

\* the trailing window and the offsets in it where the signature occurs
WindowLen == IF SrcLen(src) < 65536 THEN SrcLen(src) ELSE 65536

WindowBase == SrcLen(src) - WindowLen

Occurrences == { off \in 0..(WindowLen - 4) : EocdSigAt(WindowBase + off) }

\* the scan has run and the central directory is not sought yet
ScanDone == Len(ops) = 3 /\ pc # "find_scan"

\* the scan found no signature
NotFound == pc = "done" /\ result = Err("Other")

EocdDecoded == pc \in {"seek_cd", "loop", "cdf_block"} \/ (pc = "done" /\ Len(ops) > 3)

\* the position of the located record in the source
EocdPos == buf.base + start

\* the size of the record at position p, and the position of record i
RecSize(p) == 46 + U16At(p + 28) + U16At(p + 30) + U16At(p + 32)

RECURSIVE RecPos(_)
RecPos(i) ==
  IF i = 0 THEN U32Val(U32At(EocdPos + 16))
  ELSE RecPos(i - 1) + RecSize(RecPos(i - 1))

\* entry e is the record that starts at position p
IsRecordAt(e, p) ==
  LET f == U16At(p + 28)
      x == U16At(p + 30)
      c == U16At(p + 32)
  IN  /\ CdfSigAt(p)
      /\ e.header.made_by_ver = U16At(p + 4)
      /\ e.header.min_extract_ver = U16At(p + 6)
      /\ e.header.general_purpose_flag = U16At(p + 8)
      /\ e.header.compression_method =
           (IF U16At(p + 10) = 0 THEN "Uncompressed"
            ELSE IF U16At(p + 10) = 8 THEN "Deflate" ELSE "Unsupported")
      /\ e.header.last_mod_time = U16At(p + 12)
      /\ e.header.last_mod_date = U16At(p + 14)
      /\ e.header.crc32 = U32At(p + 16)
      /\ e.header.compressed_len = U32At(p + 20)
      /\ e.header.uncompressed_len = U32At(p + 24)
      /\ e.header.file_name_len = f
      /\ e.header.extra_field_len = x
      /\ e.header.comment_len = c
      /\ e.header.start_disk = U16At(p + 34)
      /\ e.header.internal_attrib = U16At(p + 36)
      /\ e.header.external_attrib = U32At(p + 38)
      /\ e.header.relative_offset_of_local_header = U32At(p + 42)
      /\ e.filename = SrcBytes(src, p + 46, p + 46 + f)
      /\ e.extra = SrcBytes(src, p + 46 + f, p + 46 + f + x)
      /\ e.comment = SrcBytes(src, p + 46 + f + x, p + 46 + f + x + c)

\* the indices (from 0) of the entries of fs named f
IndicesOf(fs, f) == { i \in 0..(Len(fs) - 1) : fs[i + 1].filename = f }

FilenamesOf(fs) == { fs[i].filename : i \in 1..Len(fs) }

Max(S) == CHOOSE x \in S : \A y \in S : y <= x

LastOp == ops[Len(ops)]

\* reads 5, 7, 9, .. of the log are the header reads of entries 0, 1, 2, ..
\* and reads 6, 8, 10, .. are their block reads
IsHeaderRead(k) == k >= 5 /\ k % 2 = 1

IsBlockRead(k) == k >= 6 /\ k % 2 = 0

Readable(o) == o.n = 0 \/ o.at + o.n <= SrcLen(src)

----------------------------------------------------------------------------
(* The claims *)

\* C1: when new succeeds, the entry list has exactly num_entries elements
\* (the total-entry count at offset 10 of the located EOCD record), element
\* i is the i-th record in stream order from the central-directory offset,
\* and a filename that occurs in exactly one entry is mapped to that
\* entry's index.
C1_EntriesInOrder ==
  result.tag = "Ok" =>
    LET a == result.archive
    IN  /\ Len(a.files) = U16At(EocdPos + 10)
        /\ Len(a.files) = a.eocd.header.num_entries
        /\ \A i \in 0..(Len(a.files) - 1) : IsRecordAt(a.files[i + 1], RecPos(i))
        /\ \A i \in 0..(Len(a.files) - 1) :
             LET f == a.files[i + 1].filename
             IN  IndicesOf(a.files, f) = {i} =>
                   f \in DOMAIN a.names /\ a.names[f] = i

\* a successful open of three entries, one of them the only one of its name
C1_Witness ==
  /\ result.tag = "Ok"
  /\ Len(result.archive.files) = 3
  /\ \E i \in 0..2 :
       /\ IndicesOf(result.archive.files, result.archive.files[i + 1].filename) = {i}
       /\ i > 0
  /\ RecPos(0) > 0

\* C2: when entries share a filename, after a successful new the name table
\* maps it to the greatest of their indices, the table has one key per
\* distinct filename, and the list still holds each of those entries at its
\* own index, as decoded.
C2_DuplicateLastWins ==
  result.tag = "Ok" =>
    LET a == result.archive
    IN  /\ DOMAIN a.names = FilenamesOf(a.files)
        /\ \A f \in FilenamesOf(a.files) : a.names[f] = Max(IndicesOf(a.files, f))
        /\ Len(a.files) = a.eocd.header.num_entries
        /\ \A i, j \in 0..(Len(a.files) - 1) :
             (i < j /\ a.files[i + 1].filename = a.files[j + 1].filename) =>
               /\ a.names[a.files[i + 1].filename] >= j
               /\ IsRecordAt(a.files[i + 1], RecPos(i))
               /\ IsRecordAt(a.files[j + 1], RecPos(j))

\* two entries named alike and otherwise different, the table naming the later
C2_Witness ==
  /\ result.tag = "Ok"
  /\ \E i, j \in 0..(Len(result.archive.files) - 1) :
       /\ i < j
       /\ result.archive.files[i + 1].filename = result.archive.files[j + 1].filename
       /\ result.archive.files[i + 1] # result.archive.files[j + 1]
       /\ result.archive.names[result.archive.files[i + 1].filename] = j
       /\ Cardinality(DOMAIN result.archive.names) < Len(result.archive.files)

\* C3: new ends with a fully populated archive or with an Error value of
\* kind IO, FromUtf8Error or Other, also when the located signature starts
\* fewer than 22 bytes before the end of the window or comment_len exceeds
\* the bytes left after the header.
C3_AlwaysValue ==
  pc = "done" =>
    \/ result.tag = "Ok"
    \/ result.tag = "Err" /\ result.kind \in {"IO", "FromUtf8Error", "Other"}

\* C4: the locator selects the occurrence of 50 4B 05 06 with the greatest
\* start offset in the trailing window of min(total_length, 65536) bytes,
\* and fails with Other when the window holds none.
C4_NearestToEnd ==
  ScanDone =>
    /\ buf.len = WindowLen
    /\ buf.base = WindowBase
    /\ Occurrences # {} => ~NotFound /\ start = Max(Occurrences)
    /\ Occurrences = {} => NotFound

\* the window holds the signature at more than one place
C4_Witness ==
  /\ pc = "find_decode"
  /\ Cardinality(Occurrences) >= 2
  /\ start = Max(Occurrences)

\* C5: a stream shorter than 22 bytes fails with Other, and no read is
\* issued after the seek that measures it.
C5_ShortStream ==
  SrcLen(src) < 22 =>
    /\ \A k \in 1..Len(ops) : ops[k].op # "read"
    /\ pc = "done" => result = Err("Other") /\ ops = <<SeekOp(SrcLen(src))>>
    /\ pc \in {"new", "done"}

\* a 21-byte stream that begins with the signature, refused
C5_Witness ==
  /\ pc = "done"
  /\ SrcLen(src) = 21
  /\ EocdSigAt(0)
  /\ result = Err("Other")

\* C6: a header whose first four bytes are not 50 4B 01 02 makes new fail
\* with Other; that header read is the last call on the source (its block
\* is not read, no later entry is decoded) and no archive is returned.
C6_BadSignatureStops ==
  \A k \in 1..Len(ops) :
    (IsHeaderRead(k) /\ Readable(ops[k]) /\ ~CdfSigAt(ops[k].at)) =>
      /\ k = Len(ops)
      /\ pc = "done"
      /\ result = Err("Other")
      /\ (k - 5) \div 2 < U16At(EocdPos + 10)

\* a bad record after a good one and before another
C6_Witness ==
  /\ pc = "done"
  /\ result = Err("Other")
  /\ Len(files) = 1
  /\ eocd.header.num_entries = 3
  /\ IsHeaderRead(Len(ops))
  /\ Readable(LastOp)
  /\ ~CdfSigAt(LastOp.at)

\* C7: bytes that are fully present and are not UTF-8 make new fail with
\* FromUtf8Error, not Other, in the EOCD comment and in an entry's filename
\* or comment; an extra field that is not UTF-8 does not make it fail.
C7_TextDecodingKind ==
  /\ (ScanDone /\ pc = "done" /\ Occurrences # {}
        /\ start + 22 <= buf.len
        /\ start + 22 + U16At(EocdPos + 20) <= buf.len
        /\ ~Utf8Valid(SrcBytes(src, EocdPos + 22, EocdPos + 22 + U16At(EocdPos + 20))))
       => result = Err("FromUtf8Error")
  /\ (ScanDone /\ pc = "done" /\ Occurrences # {} /\ result.tag = "Err"
        /\ start + 22 <= buf.len
        /\ start + 22 + U16At(EocdPos + 20) <= buf.len)
       => ~Utf8Valid(SrcBytes(src, EocdPos + 22, EocdPos + 22 + U16At(EocdPos + 20)))
  /\ (ops # <<>> /\ IsBlockRead(Len(ops)) /\ Readable(LastOp)) =>
       LET p == LastOp.at - 46
           f == U16At(p + 28)
           x == U16At(p + 30)
           c == U16At(p + 32)
           nameOk == Utf8Valid(SrcBytes(src, p + 46, p + 46 + f))
           cmtOk  == Utf8Valid(SrcBytes(src, p + 46 + f + x, p + 46 + f + x + c))
       IN  IF nameOk /\ cmtOk
             THEN \/ pc = "loop"
                  \/ pc = "done" /\ result.tag = "Ok"
             ELSE pc = "done" /\ result = Err("FromUtf8Error")

\* after an entry whose extra field is not UTF-8 was decoded, an entry whose
\* comment is not UTF-8 fails
C7_Witness ==
  /\ pc = "done"
  /\ result = Err("FromUtf8Error")
  /\ Len(files) >= 1
  /\ ~Utf8Valid(files[1].extra)
  /\ IsBlockRead(Len(ops))
  /\ Readable(LastOp)
  /\ hdr.comment_len > 0
  /\ Utf8Valid(SrcBytes(src, LastOp.at, LastOp.at + hdr.file_name_len))

\* C8: each decode advances the stream by 46 + filename_len + extra_len +
\* comment_len: after i decodes the position is the central-directory
\* offset plus the sizes of records 0 .. i-1, record i is read there, and
\* its filename, extra and comment are the three slices that follow its
\* header, an empty slice giving an empty value.
C8_ExactAdvance ==
  /\ pc = "loop" =>
       /\ pos = RecPos(Len(files))
       /\ \A i \in 0..(Len(files) - 1) : IsRecordAt(files[i + 1], RecPos(i))
  /\ pc = "cdf_block" =>
       /\ pos = RecPos(Len(files)) + 46
       /\ LastOp = ReadOp(RecPos(Len(files)), 46)
  /\ (pc = "loop" /\ Len(files) > 0) =>
       /\ LastOp.at + LastOp.n = pos
       /\ pos - RecPos(Len(files) - 1) = RecSize(RecPos(Len(files) - 1))

\* two decodes done, the second of a record with a name, an extra field and
\* a comment, the first of one with no extra field
C8_Witness ==
  /\ pc = "loop"
  /\ Len(files) = 2
  /\ files[1].extra = <<>>
  /\ files[2].filename # <<>>
  /\ files[2].extra # <<>>
  /\ files[2].comment # <<>>
  /\ pos = RecPos(0) + RecSize(RecPos(0)) + 46 + Len(files[2].filename)
             + Len(files[2].extra) + Len(files[2].comment)

\* C9: the EOCD fields are read at offsets 4, 6, 8, 10, 12, 16 and 20 of the
\* located record and the comment at offset 22; new decodes num_entries
\* records, not num_disk_entries, after seeking to central_dir_offset; the
\* 22-byte scenario gives num_entries 1, central_dir_len 42,
\* central_dir_offset 100 and an empty comment.
C9_FieldLayout ==
  /\ EocdDecoded =>
       /\ EocdSigAt(EocdPos)
       /\ eocd.header.disk_number = U16At(EocdPos + 4)
       /\ eocd.header.start_disk = U16At(EocdPos + 6)
       /\ eocd.header.num_disk_entries = U16At(EocdPos + 8)
       /\ eocd.header.num_entries = U16At(EocdPos + 10)
       /\ eocd.header.central_dir_len = U32At(EocdPos + 12)
       /\ eocd.header.cendral_dir_offset = U32At(EocdPos + 16)
       /\ eocd.header.comment_len = U16At(EocdPos + 20)
       /\ eocd.comment = SrcBytes(src, EocdPos + 22, EocdPos + 22 + U16At(EocdPos + 20))
       /\ Len(files) <= U16At(EocdPos + 10)
  /\ (EocdDecoded /\ pc # "seek_cd") =>
       /\ Len(ops) >= 4
       /\ ops[4] = SeekOp(U32Val(U32At(EocdPos + 16)))
  /\ result.tag = "Ok" => Len(result.archive.files) = U16At(EocdPos + 10)
  /\ (EocdDecoded /\ src = Raw(ScenarioEocd, 0, <<>>)) =>
       /\ eocd.header.num_entries = 1
       /\ U32Val(eocd.header.central_dir_len) = 42
       /\ U32Val(eocd.header.cendral_dir_offset) = 100
       /\ eocd.comment = <<>>
       /\ pc # "seek_cd" => pos = 100

\* the scenario's record, decoded, and the central directory sought at 100
C9_Witness ==
  /\ src = Raw(ScenarioEocd, 0, <<>>)
  /\ pc = "loop"
  /\ eocd.header.num_entries = 1
  /\ U32Val(eocd.header.cendral_dir_offset) = 100
  /\ eocd.comment = <<>>

\* C10, as stated: a window is compared only when its start offset in the
\* buffer is a multiple of 4, so the selected offset is a multiple of 4.
C10_AlignedOnly ==
  pc = "find_decode" => start % 4 = 0

\* C10, amended: every 4-byte window of the buffer is compared, whatever its
\* start offset: an occurrence at an offset that is not a multiple of 4 is
\* found, and is the one selected unless another starts after it.
C10_EveryOffset ==
  ScanDone =>
    \A off \in 0..(buf.len - 4) :
      (off % 4 # 0 /\ EocdSigAt(buf.base + off)) =>
        /\ ~NotFound
        /\ start >= off
        /\ (start = off \/ EocdSigAt(buf.base + start))

\* the only occurrence in the window starts at an offset that is not a
\* multiple of 4, and is selected
C10_Witness ==
  /\ pc = "find_decode"
  /\ start % 4 # 0
  /\ Occurrences = {start}

====
